---- MODULE Spec2Model ----
(***************************************************************************)
(* Verification model of GeometricKernels-vectorized:                      *)
(*   - the GPyTorch kernel adapter (frontends/pytorch/gpytorch.py),        *)
(*   - the NumPy and TensorFlow backend primitive sets (lab_extras),       *)
(*   - the dispatch registry the primitive sets register with.             *)
(***************************************************************************)
EXTENDS Integers, Sequences, FiniteSets, TLC

VARIABLES
    \* ---- GPyTorchGeometricKernel (one adapter object) ----
    kstate,        \* "none" (not constructed), "ok", "failed" (__init__ raised)
    trainable_nu,  \* self._trainable_nu
    raw_nu,        \* self.raw_nu (parameter or buffer), NoVal when not registered
    reg,           \* which of raw_nu's parameter / constraint / buffer are registered
    kerr,          \* exception raised by the last adapter operation, "none" if none
    evals,         \* number of base_kernel.K / K_diag evaluations performed
    lastParams,    \* params handed to the base kernel by the last forward
    klast,         \* the last adapter operation and its argument
    lengthscale,   \* self.lengthscale as assigned by __init__ (0: not assigned)
    \* ---- dispatch registry and the loading of the backend modules ----
    table,         \* the Registration Entries: [op, sig, mod, line]
    loadpc,        \* per backend module: number of decorated functions processed
    loadst,        \* per backend module: "unloaded", "loading", "loaded", "failed"
    derr,          \* error raised by the last registry operation, "none" if none
    dlast,         \* the last registry operation
    \* ---- backend primitives applied to one caller-held value ----
    inp,           \* the array / matrix / sparse matrix the caller holds
    ares,          \* the value returned by the last primitive
    alast,         \* the last primitive call: its arguments, and inp before it
    \* ---- random generators ----
    heap,          \* the generators' state storage: heap[i] is one state vector
    gen,           \* the generator g the caller holds: [backend, var]
    snap,          \* what get_random_state(g) returned, and g's state at that call
    gen2,          \* the generator restore_random_state returned: [exists, var]
    draws2,        \* the values drawn from gen2 so far
    rlast          \* the last generator operation, and g's state before it

kvars == <<kstate, trainable_nu, raw_nu, reg, kerr, evals, lastParams, klast,
           lengthscale>>

dvars == <<table, loadpc, loadst, derr, dlast>>

avars == <<inp, ares, alast>>

rvars == <<heap, gen, snap, gen2, draws2, rlast>>

vars == <<kvars, dvars, avars, rvars>>

\* the four parts of the model do not interact: a step of one leaves the
\* others alone
KFrame == UNCHANGED <<dvars, avars, rvars>>
DFrame == UNCHANGED <<kvars, avars, rvars>>
AFrame == UNCHANGED <<kvars, dvars, rvars>>
RFrame == UNCHANGED <<kvars, dvars, avars>>

(***************************************************************************)
(* Scalar values.  ty: how the value is held ("float": a Python/NumPy      *)
(* scalar, "t32"/"t64": a torch tensor of dtype float32/float64).          *)
(* k: "fin" (finite, representable in float32, value v), "big" (finite in  *)
(* float64 but above the float32 maximum), "pinf", "ninf", "nan",          *)
(* "invsp" (inverse softplus of the finite v > 0), "sp" (softplus of v).   *)
(***************************************************************************)
MaxEvals == 2

NoVal == [ty |-> "none", k |-> "none", v |-> 0]

Val(ty, k, v) == [ty |-> ty, k |-> k, v |-> v]

FiniteNus == {-1, 0, 2}

ScalarKinds == {Val("x", "fin", n) : n \in FiniteNus}
                 \cup {Val("x", "pinf", 0), Val("x", "ninf", 0), Val("x", "nan", 0)}

\* every value a caller can hand to __init__ or to the nu setter
NuInputs ==
    {Val(ty, s.k, s.v) : ty \in {"float", "t32", "t64"}, s \in ScalarKinds}
      \cup {Val("float", "big", 0), Val("t64", "big", 0)}

\* default_params["nu"] of the base kernel (init_params)
DefaultNus == {Val("float", "pinf", 0), Val("float", "fin", 2)}

Lengthscales == {1, 2}

IsTensor(x) == x.ty \in {"t32", "t64"}

\* torch.as_tensor: a tensor is returned as is; a Python float becomes a
\* float32 tensor (the default dtype), so a value above the float32 maximum
\* becomes +inf.
as_tensor(x) ==
    IF IsTensor(x) THEN x
    ELSE IF x.k = "big" THEN Val("t32", "pinf", 0) ELSE Val("t32", x.k, x.v)

\* Tensor.to(self.raw_nu): cast to raw_nu's dtype (float32, the dtype of
\* torch.tensor(1.0)); a float64 value above the float32 maximum becomes +inf.
to_raw_dtype(x) ==
    IF x.k = "big" THEN Val("t32", "pinf", 0) ELSE Val("t32", x.k, x.v)

\* torch.isinf on a tensor
isinf(x) == x.k \in {"pinf", "ninf"}

\* gpytorch.constraints.Positive().transform: softplus
transform(r) ==
    CASE r.k = "invsp" -> Val(r.ty, "fin", r.v)
      [] r.k = "ninf"  -> Val(r.ty, "fin", 0)
      [] r.k = "fin"   -> Val(r.ty, "sp", r.v)
      [] OTHER         -> r

\* gpytorch.constraints.Positive().inverse_transform: inverse softplus
inverse_transform(y) ==
    CASE y.k = "fin" /\ y.v > 0 -> Val(y.ty, "invsp", y.v)
      [] y.k = "fin" /\ y.v = 0 -> Val(y.ty, "ninf", 0)
      [] y.k = "fin" /\ y.v < 0 -> Val(y.ty, "nan", 0)
      [] y.k = "ninf"           -> Val(y.ty, "nan", 0)
      [] y.k = "sp"             -> Val(y.ty, "fin", y.v)
      [] OTHER                  -> y

\* gpytorch Module.initialize(raw_nu=r): refuses a raw value whose transform
\* is outside the constraint's bounds [0, inf] (a NaN compares false).
check_raw(r) == transform(r).k # "nan"

NoReg == [parameter |-> FALSE, constraint |-> FALSE, buffer |-> FALSE]

\* nu property, getter
nu_getter(tr, raw) == IF tr THEN transform(raw) ELSE raw

\* nu property, setter: the new raw_nu and the exception raised ("none": none).
\* torch.isinf is applied to the value as assigned, before torch.as_tensor,
\* and raises TypeError for anything that is not a tensor.
nu_setter(tr, raw, value) ==
    IF tr
    THEN IF ~IsTensor(value)
         THEN [raw_nu |-> raw, err |-> "TypeError"]
         ELSE IF isinf(value)
         THEN [raw_nu |-> raw, err |-> "ValueError"]
         ELSE LET r == inverse_transform(to_raw_dtype(as_tensor(value)))
              IN  IF check_raw(r)
                  THEN [raw_nu |-> r, err |-> "none"]
                  ELSE [raw_nu |-> raw, err |-> "RuntimeError"]
    ELSE [raw_nu |-> as_tensor(value), err |-> "none"]

\* __init__ with the early check of line 85 left out: an infinite nu is then
\* caught only by the setter, after raw_nu and its constraint are registered.
init_late_check(nuArg, default, ls, tr) ==
    LET nu == as_tensor(IF nuArg = NoVal THEN default ELSE nuArg)
        s  == nu_setter(TRUE, Val("t32", "fin", 1), nu)
    IN  IF tr
        THEN [kstate |-> IF s.err = "none" THEN "ok" ELSE "failed",
              trainable_nu |-> TRUE, raw_nu |-> s.raw_nu,
              reg |-> [parameter |-> TRUE, constraint |-> TRUE, buffer |-> FALSE],
              kerr |-> s.err, lengthscale |-> ls]
        ELSE [kstate |-> "ok", trainable_nu |-> FALSE, raw_nu |-> nu,
              reg |-> [parameter |-> FALSE, constraint |-> FALSE, buffer |-> TRUE],
              kerr |-> "none", lengthscale |-> ls]

\* GPyTorchGeometricKernel.__init__(base_kernel, lengthscale, nu, trainable_nu);
\* nuArg = NoVal stands for nu=None, default for init_params()["nu"].
init(nuArg, default, ls, tr) ==
    LET nu == as_tensor(IF nuArg = NoVal THEN default ELSE nuArg)
        s  == nu_setter(TRUE, Val("t32", "fin", 1), nu)
    IN  IF tr /\ isinf(nu)
        THEN [kstate |-> "failed", trainable_nu |-> tr, raw_nu |-> NoVal,
              reg |-> NoReg, kerr |-> "ValueError", lengthscale |-> 0]
        ELSE IF tr
        THEN [kstate |-> IF s.err = "none" THEN "ok" ELSE "failed",
              trainable_nu |-> TRUE, raw_nu |-> s.raw_nu,
              reg |-> [parameter |-> TRUE, constraint |-> TRUE, buffer |-> FALSE],
              kerr |-> s.err, lengthscale |-> ls]
        ELSE [kstate |-> "ok", trainable_nu |-> FALSE, raw_nu |-> nu,
              reg |-> [parameter |-> FALSE, constraint |-> FALSE, buffer |-> TRUE],
              kerr |-> "none", lengthscale |-> ls]

\* forward(x1, x2, diag): the params handed to base_kernel.K / K_diag
forward(tr, raw, ls, diag) ==
    [fn |-> IF diag THEN "K_diag" ELSE "K", lengthscale |-> ls,
     nu |-> nu_getter(tr, raw)]

NoParams == [fn |-> "none", lengthscale |-> 0, nu |-> NoVal]

NoOp == [op |-> "none", value |-> NoVal, from |-> "none", rawBefore |-> NoVal]

KInit ==
    /\ kstate = "none"
    /\ trainable_nu = FALSE
    /\ raw_nu = NoVal
    /\ reg = NoReg
    /\ kerr = "none"
    /\ evals = 0
    /\ lastParams = NoParams
    /\ klast = NoOp
    /\ lengthscale = 0

Construct ==
    /\ KFrame
    /\ kstate = "none"
    /\ \E nuArg \in NuInputs \cup {NoVal}, default \in DefaultNus,
          ls \in Lengthscales, tr \in BOOLEAN :
          LET r == init(nuArg, default, ls, tr)
          IN  /\ kstate' = r.kstate
              /\ trainable_nu' = r.trainable_nu
              /\ raw_nu' = r.raw_nu
              /\ reg' = r.reg
              /\ kerr' = r.kerr
              /\ lengthscale' = r.lengthscale
              /\ klast' = [op |-> "init",
                           value |-> IF nuArg = NoVal THEN default ELSE nuArg,
                           from |-> IF nuArg = NoVal THEN "default" ELSE "argument",
                           rawBefore |-> NoVal]
    /\ UNCHANGED <<evals, lastParams>>

SetNu ==
    /\ KFrame
    /\ kstate = "ok"
    /\ \E value \in NuInputs :
          LET r == nu_setter(trainable_nu, raw_nu, value)
          IN  /\ raw_nu' = r.raw_nu
              /\ kerr' = r.err
              /\ klast' = [op |-> "set", value |-> value, from |-> "argument",
                           rawBefore |-> raw_nu]
    /\ UNCHANGED <<kstate, trainable_nu, reg, evals, lastParams, lengthscale>>

Forward ==
    /\ KFrame
    /\ kstate = "ok"
    /\ evals < MaxEvals
    /\ \E diag \in BOOLEAN :
          lastParams' = forward(trainable_nu, raw_nu, lengthscale, diag)
    /\ evals' = evals + 1
    /\ kerr' = "none"
    /\ klast' = [op |-> "forward", value |-> NoVal, from |-> "none",
                 rawBefore |-> NoVal]
    /\ UNCHANGED <<kstate, trainable_nu, raw_nu, reg, lengthscale>>

KNext == Construct \/ SetNu \/ Forward

(***************************************************************************)
(* Dispatch.  Runtime types of arguments, and the type patterns the        *)
(* decorated functions of the two backend modules are annotated with.      *)
(***************************************************************************)
RuntimeTypes ==
    {"int", "float", "ndarray", "Tensor", "NoneType", "list",
     "RandomState", "Generator", "spmatrix"}

\* B.Number, B.NPNumeric, B.TFNumeric
Number == {"int", "float"}
NPNumeric == {"ndarray"}
TFNumeric == {"Tensor"}

\* numpy/extras.py: _Numeric = Union[B.Number, B.NPNumeric]
NP_Numeric == Number \cup NPNumeric

\* a TensorFlow _Numeric that leaves B.NPNumeric out of the union
TF_Numeric_no_np == Number \cup TFNumeric

\* tensorflow/extras.py: _Numeric = Union[B.Number, B.TFNumeric, B.NPNumeric]
TF_Numeric == Number \cup TFNumeric \cup NPNumeric

\* the set of runtime types a pattern admits
PatternTypes(p) ==
    CASE p = "np._Numeric"      -> NP_Numeric
      [] p = "tf._Numeric"      -> TF_Numeric
      [] p = "B.NPNumeric"      -> NPNumeric
      [] p = "B.TFNumeric"      -> TFNumeric
      [] p = "int"              -> {"int"}
      [] p = "float"            -> {"float"}
      [] p = "Optional[int]"    -> {"int", "NoneType"}
      [] p = "B.NPRandomState"  -> {"RandomState"}
      [] p = "B.TFRandomState"  -> {"Generator"}
      [] p = "spmatrix"         -> {"spmatrix"}
      [] p = "Union[List, B.NPNumeric, B.Number]"
                                -> {"list"} \cup NPNumeric \cup Number
      [] p = "Union[List, B.Numeric, B.NPNumeric, B.TFNumeric]"
                                -> {"list"} \cup Number \cup NPNumeric \cup TFNumeric
      [] OTHER                  -> RuntimeTypes   \* unannotated, Any, Optional[Any]

\* one decorated function: its required and its defaulted parameters
Fn(op, line, req, opt) == [op |-> op, line |-> line, req |-> req, opt |-> opt]

\* a second numpy qr registered for B.NPNumeric only
NumpyQrSecond_arr == Fn("qr", 164, <<"B.NPNumeric">>, <<>>)

\* numpy/extras.py: the second @dispatch def qr(x: _Numeric)
NumpyQrSecond == Fn("qr", 164, <<"np._Numeric">>, <<>>)

\* numpy/extras.py: the decorated functions, in source order
NumpyExtras ==
    << Fn("take_along_axis", 13, <<"np._Numeric", "np._Numeric">>, <<"int">>),
       Fn("from_numpy", 21,
          <<"B.NPNumeric", "Union[List, B.NPNumeric, B.Number]">>, <<>>),
       Fn("trapz", 29, <<"np._Numeric", "np._Numeric">>, <<"np._Numeric", "int">>),
       Fn("qr", 37, <<"np._Numeric">>, <<>>),
       Fn("norm", 45, <<"np._Numeric">>, <<"Optional[Any]", "Optional[int]">>),
       Fn("logspace", 53, <<"np._Numeric", "np._Numeric">>, <<"int", "np._Numeric">>),
       Fn("degree", 61, <<"np._Numeric">>, <<>>),
       Fn("dtype_double", 73, <<"B.NPRandomState">>, <<>>),
       Fn("float_like", 81, <<"B.NPNumeric">>, <<>>),
       Fn("dtype_integer", 94, <<"B.NPRandomState">>, <<>>),
       Fn("get_random_state", 102, <<"B.NPRandomState">>, <<>>),
       Fn("restore_random_state", 114, <<"B.NPRandomState", "Any">>, <<>>),
       Fn("create_complex", 129, <<"np._Numeric", "np._Numeric">>, <<>>),
       Fn("dtype_complex", 145, <<"B.NPNumeric">>, <<>>),
       Fn("cumsum", 156, <<"np._Numeric">>, <<"Any">>),
       NumpyQrSecond,
       Fn("slogdet", 173, <<"np._Numeric">>, <<>>),
       Fn("eigvalsh", 182, <<"np._Numeric">>, <<>>),
       Fn("reciprocal_no_nan", 190, <<"B.NPNumeric">>, <<>>),
       Fn("reciprocal_no_nan", 200, <<"spmatrix">>, <<>>) >>

\* tensorflow/extras.py: the decorated functions, in source order
TensorflowExtras ==
    << Fn("take_along_axis", 13, <<"tf._Numeric", "tf._Numeric">>, <<"int">>),
       Fn("from_numpy", 21,
          <<"B.TFNumeric", "Union[List, B.Numeric, B.NPNumeric, B.TFNumeric]">>, <<>>),
       Fn("trapz", 29, <<"tf._Numeric", "tf._Numeric">>, <<"Any", "Any">>),
       Fn("qr", 37, <<"B.TFNumeric">>, <<>>),
       Fn("norm", 45, <<"tf._Numeric">>, <<"Optional[Any]", "Optional[int]">>),
       Fn("logspace", 53, <<"tf._Numeric", "tf._Numeric">>, <<"int", "tf._Numeric">>),
       Fn("degree", 62, <<"B.TFNumeric">>, <<>>),
       Fn("eigenpairs", 74, <<"B.TFNumeric", "int">>, <<>>),
       Fn("set_value", 83, <<"B.TFNumeric", "int", "float">>, <<>>),
       Fn("dtype_double", 93, <<"B.TFRandomState">>, <<>>),
       Fn("float_like", 101, <<"B.TFNumeric">>, <<>>),
       Fn("dtype_integer", 114, <<"B.TFRandomState">>, <<>>),
       Fn("get_random_state", 122, <<"B.TFRandomState">>, <<>>),
       Fn("restore_random_state", 134, <<"B.TFRandomState", "Any">>, <<>>),
       Fn("create_complex", 148, <<"tf._Numeric", "B.TFNumeric">>, <<>>),
       Fn("dtype_complex", 164, <<"B.TFNumeric">>, <<>>),
       Fn("cumsum", 175, <<"B.TFNumeric">>, <<"Any">>),
       Fn("qr", 183, <<"B.TFNumeric">>, <<"Any">>),
       Fn("slogdet", 193, <<"B.TFNumeric">>, <<>>),
       Fn("eigvalsh", 202, <<"B.TFNumeric">>, <<>>),
       Fn("reciprocal_no_nan", 210, <<"B.TFNumeric">>, <<>>),
       Fn("complex_conj", 218, <<"B.TFNumeric">>, <<>>) >>

Modules == {"numpy", "tensorflow"}

Extras(m) == IF m = "numpy" THEN NumpyExtras ELSE TensorflowExtras

\* the signatures one decorated function is registered under: one per number
\* of defaulted parameters supplied, shortest first
Signatures(fn) == [j \in 1..(Len(fn.opt) + 1) |-> fn.req \o SubSeq(fn.opt, 1, j - 1)]

SameSignature(s, t) ==
    /\ Len(s) = Len(t)
    /\ \A i \in 1..Len(s) : PatternTypes(s[i]) = PatternTypes(t[i])

\* register(operation_name, argument_type_patterns, implementation)
register(tbl, op, sig, mod, line) ==
    IF \E e \in tbl : e.op = op /\ SameSignature(e.sig, sig)
    THEN [table |-> tbl, err |-> "DuplicateRegistrationError"]
    ELSE [table |-> tbl \cup {[op |-> op, sig |-> sig, mod |-> mod, line |-> line]},
          err |-> "none"]

\* @dispatch on one function: register its signatures in turn; the first
\* error ends it
RECURSIVE dispatch(_, _, _, _)
dispatch(tbl, mod, fn, j) ==
    IF j > Len(Signatures(fn))
    THEN [table |-> tbl, err |-> "none"]
    ELSE LET r == register(tbl, fn.op, Signatures(fn)[j], mod, fn.line)
         IN  IF r.err # "none" THEN r ELSE dispatch(r.table, mod, fn, j + 1)

\* entries of operation op whose patterns match the runtime types args
Matching(tbl, op, args) ==
    {e \in tbl : /\ e.op = op
                 /\ Len(e.sig) = Len(args)
                 /\ \A i \in 1..Len(args) : args[i] \in PatternTypes(e.sig[i])}

\* e is at least as specific as f
Leq(e, f) ==
    /\ Len(e.sig) = Len(f.sig)
    /\ \A i \in 1..Len(e.sig) : PatternTypes(e.sig[i]) \subseteq PatternTypes(f.sig[i])

\* call(operation_name, *args): the selected entries (one, or none on error)
call(tbl, op, args) ==
    LET M    == Matching(tbl, op, args)
        best == {e \in M : ~ \E f \in M : f # e /\ Leq(f, e) /\ ~Leq(e, f)}
    IN  IF M = {} THEN [selected |-> {}, err |-> "NoMatchingImplementationError"]
        ELSE IF Cardinality(best) = 1 THEN [selected |-> best, err |-> "none"]
        ELSE [selected |-> {}, err |-> "AmbiguousDispatchError"]

MaxArity == 4

Operations == UNION {{Extras(m)[i].op : i \in 1..Len(Extras(m))} : m \in Modules}

NoDOp == [kind |-> "none", mod |-> "none", op |-> "none", line |-> 0,
          args |-> <<>>, dup |-> FALSE, changed |-> FALSE, selected |-> {}]

DInit ==
    /\ table = {}
    /\ loadpc = [m \in Modules |-> 0]
    /\ loadst = [m \in Modules |-> "unloaded"]
    /\ derr = "none"
    /\ dlast = NoDOp

\* import of a backend module, one decorated function at a time; an
\* exception raised by a decorator ends the import
LoadStep(m) ==
    /\ DFrame
    /\ loadst[m] \in {"unloaded", "loading"}
    /\ dlast.kind # "call"
    /\ \A o \in Modules \ {m} : loadst[o] # "loading"
    /\ LET fn == Extras(m)[loadpc[m] + 1]
           r  == dispatch(table, m, fn, 1)
       IN  /\ table' = r.table
           /\ derr' = r.err
           /\ loadpc' = [loadpc EXCEPT ![m] = @ + 1]
           /\ loadst' = [loadst EXCEPT ![m] =
                            IF r.err # "none" THEN "failed"
                            ELSE IF loadpc[m] + 1 = Len(Extras(m)) THEN "loaded"
                            ELSE "loading"]
           /\ dlast' = [kind |-> "register", mod |-> m, op |-> fn.op,
                        line |-> fn.line, args |-> <<>>,
                        dup |-> r.err = "DuplicateRegistrationError",
                        changed |-> r.table # table, selected |-> {}]

\* one call of an operation; calls are issued between imports, one at a time
Call ==
    /\ DFrame
    /\ \A m \in Modules : loadst[m] # "loading"
    /\ \E m \in Modules : loadst[m] \in {"loaded", "failed"}
    /\ dlast.kind # "call"
    /\ \E op \in Operations, n \in 1..MaxArity :
          \E args \in [1..n -> RuntimeTypes] :
             LET r == call(table, op, args)
             IN  /\ derr' = r.err
                 /\ dlast' = [kind |-> "call", mod |-> "none", op |-> op, line |-> 0,
                              args |-> args, dup |-> FALSE, changed |-> FALSE,
                              selected |-> r.selected]
    /\ UNCHANGED <<table, loadpc, loadst>>

\* the call returns (or its error has been delivered) to the caller
Return ==
    /\ DFrame
    /\ dlast.kind = "call"
    /\ dlast' = NoDOp
    /\ derr' = "none"
    /\ UNCHANGED <<table, loadpc, loadst>>

DNext == (\E m \in Modules : LoadStep(m)) \/ Call \/ Return

(***************************************************************************)
(* Backend primitives.  A dense 1-D array is a sequence of numbers, a      *)
(* dense 2-D array a sequence of rows, a sparse matrix a sequence of       *)
(* stored entries [pos, val] (coordinate storage: positions may repeat,    *)
(* and a stored value may be 0).  Python index i is position i + 1.        *)
(***************************************************************************)
MaxLen == 3
MaxElem == 3
MaxDim == 2
MaxStored == 2
NPos == 2

Elems == -1..MaxElem
MatElems == {1, 2}
SpVals == {-1, 0, 1, 2}

Arrays == UNION {[1..n -> Elems] : n \in 0..MaxLen}
Matrices == UNION {[1..r -> [1..c -> MatElems]] : r \in 1..MaxDim, c \in 1..MaxDim}
SparseMatrices ==
    UNION {[1..n -> [pos : 1..NPos, val : SpVals]] : n \in 0..MaxStored}

Dense1(a) == [kind |-> "dense1", a |-> a, m |-> <<>>, sp |-> <<>>]
Dense2(m) == [kind |-> "dense2", a |-> <<>>, m |-> m, sp |-> <<>>]
Sparse(sp) == [kind |-> "sparse", a |-> <<>>, m |-> <<>>, sp |-> sp]
Nothing == [kind |-> "none", a |-> <<>>, m |-> <<>>, sp |-> <<>>]
Raised == [kind |-> "error", a |-> <<>>, m |-> <<>>, sp |-> <<>>]
\* a pair (l, u): eigenvalues l, matrix u
Pair(l, u) == [kind |-> "pair", a |-> l, m |-> u, sp |-> <<>>]

\* diag(d): the diagonal matrix with diagonal d
Diag(d) == [r \in 1..Len(d) |-> [c \in 1..Len(d) |-> IF r = c THEN d[r] ELSE 0]]

\* symmetric PSD inputs of eigenpairs: the diagonal matrices with entries >= 0
PsdMatrices == {Diag(d) : d \in UNION {[1..n -> 0..MaxElem] : n \in 1..MaxLen}}

IsPsdDiagonal(m) ==
    /\ \A r \in 1..Len(m) : Len(m[r]) = Len(m)
    /\ \A r \in 1..Len(m) : \A c \in 1..Len(m) :
          IF r = c THEN m[r][c] >= 0 ELSE m[r][c] = 0

\* ---- set_value (tensorflow/extras.py) ----

\* tf.where(tf.range(len(a)) == index, value, a)
tf_where_range_eq(a, index, value) ==
    [j \in 1..Len(a) |-> IF j - 1 = index THEN value ELSE a[j]]

\* a set_value that writes into the array it was given and returns it
set_value_in_place(a, index, value) ==
    [arg |-> tf_where_range_eq(a, index, value),
     ret |-> tf_where_range_eq(a, index, value)]

\* set_value(a, index, value): the caller's array afterwards, and the result
set_value(a, index, value) ==
    [arg |-> a, ret |-> tf_where_range_eq(a, index, value)]

\* ---- reciprocal_no_nan ----

\* rationals n/d, d > 0; d = 0 stands for the infinity a division by zero gives
Rat(n, d) == [n |-> n, d |-> d]
Abs(n) == IF n < 0 THEN -n ELSE n
Sgn(n) == IF n < 0 THEN -1 ELSE IF n = 0 THEN 0 ELSE 1

\* np.reciprocal on one float
np_reciprocal(x) == IF x = 0 THEN Rat(1, 0) ELSE Rat(Sgn(x), Abs(x))

\* numpy reciprocal_no_nan(x: B.NPNumeric): the result, and whether a division
\* by zero was evaluated on the way
reciprocal_no_nan_np(x) ==
    LET x_is_zero == [j \in 1..Len(x) |-> x[j] = 0]
        safe_x    == [j \in 1..Len(x) |-> IF x_is_zero[j] THEN 1 ELSE x[j]]
    IN  [data  |-> [j \in 1..Len(x) |->
                      IF x_is_zero[j] THEN Rat(0, 1) ELSE np_reciprocal(safe_x[j])],
         fault |-> \E j \in 1..Len(x) : safe_x[j] = 0]

\* tensorflow reciprocal_no_nan(x: B.TFNumeric): tf.math.reciprocal_no_nan
reciprocal_no_nan_tf(x) ==
    [data  |-> [j \in 1..Len(x) |->
                  IF x[j] = 0 THEN Rat(0, 1) ELSE Rat(Sgn(x[j]), Abs(x[j]))],
     fault |-> FALSE]

RECURSIVE SumAt(_, _)
\* value of the sparse matrix sp at position p: the sum of the entries stored there
SumAt(sp, p) ==
    IF sp = <<>> THEN 0
    ELSE (IF Head(sp).pos = p THEN Head(sp).val ELSE 0) + SumAt(Tail(sp), p)

StoredPositions(sp) == {sp[j].pos : j \in 1..Len(sp)}

RECURSIVE SortedSeq(_)
\* the elements of a finite set of integers, ascending
SortedSeq(S) ==
    IF S = {} THEN <<>>
    ELSE LET lo == CHOOSE x \in S : \A y \in S : x <= y
         IN  <<lo>> \o SortedSeq(S \ {lo})

\* x._deduped_data(): sum_duplicates() rewrites x in place, one entry per
\* stored position holding the sum, positions ascending
sum_duplicates(sp) ==
    LET ps == SortedSeq(StoredPositions(sp))
    IN  [j \in 1..Len(ps) |-> [pos |-> ps[j], val |-> SumAt(sp, ps[j])]]

\* a sparse reciprocal that transforms x.data as stored, duplicates and all
reciprocal_no_nan_sp_raw_data(sp) ==
    LET data == [j \in 1..Len(sp) |-> sp[j].val]
        r    == reciprocal_no_nan_np(data)
    IN  [arg   |-> sp,
         ret   |-> [j \in 1..Len(sp) |-> [pos |-> sp[j].pos, val |-> r.data[j]]],
         fault |-> r.fault]

\* numpy reciprocal_no_nan(x: spmatrix): x afterwards, the returned matrix,
\* and whether a division by zero was evaluated
reciprocal_no_nan_sp(sp) ==
    LET x    == sum_duplicates(sp)
        data == [j \in 1..Len(x) |-> x[j].val]
        r    == reciprocal_no_nan_np(data)
    IN  [arg   |-> x,
         ret   |-> [j \in 1..Len(x) |-> [pos |-> x[j].pos, val |-> r.data[j]]],
         fault |-> r.fault]

\* ---- eigenpairs (tensorflow/extras.py) ----

\* the stable ascending ordering of the positions of d
AscendingOrder(d) ==
    CHOOSE p \in [1..Len(d) -> 1..Len(d)] :
        /\ \A i, j \in 1..Len(d) : i # j => p[i] # p[j]
        /\ \A i, j \in 1..Len(d) :
              i < j => (d[p[i]] < d[p[j]] \/ (d[p[i]] = d[p[j]] /\ p[i] < p[j]))

\* tf.linalg.eigh on a diagonal matrix: eigenvalues ascending, and as
\* columns the unit vectors of the positions they stand at
tf_eigh(L) ==
    LET d == [r \in 1..Len(L) |-> L[r][r]]
        p == AscendingOrder(d)
    IN  [l |-> [i \in 1..Len(d) |-> d[p[i]]],
         u |-> [r \in 1..Len(d) |-> [c \in 1..Len(d) |-> IF r = p[c] THEN 1 ELSE 0]]]

\* eigenpairs(L, k): l[:k], u[:, :k]
eigenpairs(L, k) ==
    LET e == tf_eigh(L)
    IN  Pair(SubSeq(e.l, 1, k), [r \in 1..Len(L) |-> SubSeq(e.u[r], 1, k)])

\* ---- cumsum ----

RECURSIVE PrefixSum(_, _)
\* x[1] + ... + x[j]
PrefixSum(x, j) == IF j = 0 THEN 0 ELSE PrefixSum(x, j - 1) + x[j]

RECURSIVE Flatten(_)
\* the rows of m one after the other (row-major order)
Flatten(m) == IF m = <<>> THEN <<>> ELSE Head(m) \o Flatten(Tail(m))

Column(m, c) == [r \in 1..Len(m) |-> m[r][c]]

NDim(x) == IF x.kind = "dense1" THEN 1 ELSE 2

\* running sum of x along the axis ax (0 <= ax < ndim)
CumsumAlong(x, ax) ==
    IF x.kind = "dense1"
    THEN Dense1([j \in 1..Len(x.a) |-> PrefixSum(x.a, j)])
    ELSE IF ax = 0
    THEN Dense2([r \in 1..Len(x.m) |->
                   [c \in 1..Len(x.m[1]) |-> PrefixSum(Column(x.m, c), r)]])
    ELSE Dense2([r \in 1..Len(x.m) |->
                   [c \in 1..Len(x.m[1]) |-> PrefixSum(x.m[r], c)]])

\* a negative axis counts from the last one
NormAxis(x, ax) == IF ax < 0 THEN ax + NDim(x) ELSE ax

\* np.cumsum(a, axis=axis): axis=None sums over the flattened array
np_cumsum(x, axis) ==
    IF ~axis.given
    THEN LET flat == IF x.kind = "dense1" THEN x.a ELSE Flatten(x.m)
         IN  Dense1([j \in 1..Len(flat) |-> PrefixSum(flat, j)])
    ELSE IF NormAxis(x, axis.ax) \in 0..(NDim(x) - 1)
    THEN CumsumAlong(x, NormAxis(x, axis.ax))
    ELSE Raised

\* tf.math.cumsum(x, axis=axis): the axis must be an integer; axis=None is
\* not converted to one and the call raises
tf_cumsum(x, axis) ==
    IF ~axis.given THEN Raised
    ELSE IF NormAxis(x, axis.ax) \in 0..(NDim(x) - 1)
    THEN CumsumAlong(x, NormAxis(x, axis.ax))
    ELSE Raised

\* cumsum(a, axis=None) as registered by the two backend modules
cumsum(b, x, axis) == IF b = "numpy" THEN np_cumsum(x, axis) ELSE tf_cumsum(x, axis)

Axes == {[given |-> FALSE, ax |-> 0]} \cup {[given |-> TRUE, ax |-> n] : n \in -1..1}

NoCall == [op |-> "none", backend |-> "none", index |-> 0, value |-> 0,
           axis |-> [given |-> FALSE, ax |-> 0], before |-> Nothing, fault |-> FALSE]

AInit ==
    /\ inp \in {Dense1(a) : a \in Arrays} \cup {Dense2(m) : m \in Matrices}
                \cup {Dense2(m) : m \in PsdMatrices}
                \cup {Sparse(sp) : sp \in SparseMatrices}
    /\ ares = Nothing
    /\ alast = NoCall

SetValue ==
    /\ AFrame
    /\ inp.kind = "dense1"
    /\ \E index \in -1..MaxLen, value \in Elems :
          LET r == set_value(inp.a, index, value)
          IN  /\ inp' = Dense1(r.arg)
              /\ ares' = Dense1(r.ret)
              /\ alast' = [NoCall EXCEPT !.op = "set_value", !.backend = "tensorflow",
                                         !.index = index, !.value = value,
                                         !.before = inp]

ReciprocalDense ==
    /\ AFrame
    /\ inp.kind = "dense1"
    /\ \E b \in Modules :
          LET r == IF b = "numpy" THEN reciprocal_no_nan_np(inp.a)
                                 ELSE reciprocal_no_nan_tf(inp.a)
          IN  /\ ares' = Dense1(r.data)
              /\ alast' = [NoCall EXCEPT !.op = "reciprocal_no_nan", !.backend = b,
                                         !.before = inp, !.fault = r.fault]
    /\ UNCHANGED inp

ReciprocalSparse ==
    /\ AFrame
    /\ inp.kind = "sparse"
    /\ LET r == reciprocal_no_nan_sp(inp.sp)
       IN  /\ inp' = Sparse(r.arg)
           /\ ares' = Sparse(r.ret)
           /\ alast' = [NoCall EXCEPT !.op = "reciprocal_no_nan", !.backend = "numpy",
                                      !.before = inp, !.fault = r.fault]

Eigenpairs ==
    /\ AFrame
    /\ inp.kind = "dense2"
    /\ IsPsdDiagonal(inp.m)
    /\ \E k \in 1..Len(inp.m) :
          /\ ares' = eigenpairs(inp.m, k)
          /\ alast' = [NoCall EXCEPT !.op = "eigenpairs", !.backend = "tensorflow",
                                     !.index = k, !.before = inp]
    /\ UNCHANGED inp

Cumsum ==
    /\ AFrame
    /\ inp.kind \in {"dense1", "dense2"}
    /\ \E b \in Modules, axis \in Axes :
          /\ ares' = cumsum(b, inp, axis)
          /\ alast' = [NoCall EXCEPT !.op = "cumsum", !.backend = b,
                                     !.axis = axis, !.before = inp]
    /\ UNCHANGED inp

ANext == SetValue \/ ReciprocalDense \/ ReciprocalSparse \/ Eigenpairs \/ Cumsum

AIdle == inp = Nothing /\ ares = Nothing /\ alast = NoCall

(***************************************************************************)
(* Random generators.  A generator's state is a counter modulo RngPeriod;  *)
(* a draw returns the counter and advances it.  A NumPy RandomState owns   *)
(* its state; a tf.random.Generator holds a tf.Variable, heap[var].        *)
(***************************************************************************)
RngPeriod == 7
MaxSeed == 2
MaxDraws == 3

Output(st) == st
Advance(st) == (st + 1) % RngPeriod

NoSnap == [taken |-> FALSE, byref |-> FALSE, val |-> 0, ref |-> 0, atState |-> 0]

\* numpy get_random_state(key): key.get_state(), a copy of the state
np_get_random_state(h, key) ==
    [taken |-> TRUE, byref |-> FALSE, val |-> h[key.var], ref |-> 0,
     atState |-> h[key.var]]

\* tensorflow get_random_state(key): (key.state, key.algorithm); key.state is
\* the generator's state variable itself, not a copy of its value
tf_get_random_state(h, key) ==
    [taken |-> TRUE, byref |-> TRUE, val |-> 0, ref |-> key.var,
     atState |-> h[key.var]]

get_random_state(h, key) ==
    IF key.backend = "numpy" THEN np_get_random_state(h, key)
    ELSE tf_get_random_state(h, key)

\* numpy restore_random_state(key, state): a new RandomState, then set_state
np_restore_random_state(h, key, state) ==
    [heap |-> Append(h, state.val), gen |-> [exists |-> TRUE, var |-> Len(h) + 1]]

\* tensorflow restore_random_state(key, state): Generator.from_state(state[0],
\* state[1]); given a tf.Variable as state the new generator uses that
\* variable as its own state
tf_restore_random_state(h, key, state) ==
    IF state.byref
    THEN [heap |-> h, gen |-> [exists |-> TRUE, var |-> state.ref]]
    ELSE [heap |-> Append(h, state.val), gen |-> [exists |-> TRUE, var |-> Len(h) + 1]]

restore_random_state(h, key, state) ==
    IF key.backend = "numpy" THEN np_restore_random_state(h, key, state)
    ELSE tf_restore_random_state(h, key, state)

NoROp == [op |-> "none", keyBefore |-> 0]

RInit ==
    /\ \E seed \in 0..MaxSeed : heap = <<seed>>
    /\ gen \in {[backend |-> b, var |-> 1] : b \in Modules}
    /\ snap = NoSnap
    /\ gen2 = [exists |-> FALSE, var |-> 0]
    /\ draws2 = <<>>
    /\ rlast = NoROp

RIdle ==
    /\ heap = <<>>
    /\ gen = [backend |-> "none", var |-> 0]
    /\ snap = NoSnap
    /\ gen2 = [exists |-> FALSE, var |-> 0]
    /\ draws2 = <<>>
    /\ rlast = NoROp

\* the caller draws one value from g
DrawKey ==
    /\ RFrame
    /\ heap[gen.var] < RngPeriod - 1
    /\ heap' = [heap EXCEPT ![gen.var] = Advance(@)]
    /\ rlast' = [op |-> "draw", keyBefore |-> heap[gen.var]]
    /\ UNCHANGED <<gen, snap, gen2, draws2>>

\* the caller draws one value from the restored generator
DrawRestored ==
    /\ RFrame
    /\ gen2.exists
    /\ Len(draws2) < MaxDraws
    /\ heap[gen2.var] < RngPeriod - 1
    /\ draws2' = Append(draws2, Output(heap[gen2.var]))
    /\ heap' = [heap EXCEPT ![gen2.var] = Advance(@)]
    /\ rlast' = [op |-> "draw2", keyBefore |-> heap[gen.var]]
    /\ UNCHANGED <<gen, snap, gen2>>

GetRandomState ==
    /\ RFrame
    /\ ~snap.taken
    /\ snap' = get_random_state(heap, gen)
    /\ rlast' = [op |-> "get", keyBefore |-> heap[gen.var]]
    /\ UNCHANGED <<heap, gen, gen2, draws2>>

RestoreRandomState ==
    /\ RFrame
    /\ snap.taken
    /\ ~gen2.exists
    /\ LET r == restore_random_state(heap, gen, snap)
       IN  /\ heap' = r.heap
           /\ gen2' = r.gen
    /\ rlast' = [op |-> "restore", keyBefore |-> heap[gen.var]]
    /\ UNCHANGED <<gen, snap, draws2>>

RNext == DrawKey \/ DrawRestored \/ GetRandomState \/ RestoreRandomState

Init == KInit /\ DInit /\ AIdle /\ RIdle

SpecKernel == Init /\ [][KNext]_vars

SpecDispatch == Init /\ [][DNext]_vars

\* the caller holds one input value; nothing else has happened
InitArray == KInit /\ DInit /\ AInit /\ RIdle

SpecArray == InitArray /\ [][ANext]_vars

\* the caller holds one seeded generator; nothing else has happened
InitRandom == KInit /\ DInit /\ AIdle /\ RInit

SpecRandom == InitRandom /\ [][RNext]_vars

(***************************************************************************)
(* C1: constructing the adapter with trainable_nu=True and an infinite nu  *)
(* (given explicitly, or nu=None with an infinite default) fails with      *)
(* ValueError, and at that point no base-kernel evaluation has been made   *)
(* and raw_nu has no registered parameter, constraint or buffer.           *)
(***************************************************************************)
C1_InfiniteTrainableRejected ==
    (klast.op = "init" /\ trainable_nu /\ klast.value.k \in {"pinf", "ninf"})
        => /\ kstate = "failed"
           /\ kerr = "ValueError"
           /\ reg = NoReg
           /\ raw_nu = NoVal
           /\ evals = 0
           /\ lastParams = NoParams

C1_Witness ==
    /\ klast.op = "init" /\ trainable_nu
    /\ klast.from = "default" /\ klast.value.k = "pinf"
    /\ kstate = "failed" /\ kerr = "ValueError"

LoadEnded(m) == loadst[m] \in {"loaded", "failed"}

NumpyQrEntries == {e \in table : e.op = "qr" /\ e.mod = "numpy"}

C3_MostSpecificSelected ==
    (dlast.kind = "call" /\ Matching(table, dlast.op, dlast.args) # {})
        => /\ derr = "none"
           /\ Cardinality(dlast.selected) = 1
           /\ dlast.selected \subseteq Matching(table, dlast.op, dlast.args)
           /\ \A e \in dlast.selected :
                 \A f \in Matching(table, dlast.op, dlast.args) \ {e} :
                    Leq(e, f) /\ ~Leq(f, e)

C3_Witness ==
    /\ \A m \in Modules : LoadEnded(m)
    /\ dlast.kind = "call" /\ dlast.op = "take_along_axis"
    /\ dlast.args = <<"ndarray", "ndarray">>
    /\ Cardinality(Matching(table, dlast.op, dlast.args)) = 2
    /\ \E e \in dlast.selected : e.mod = "numpy" /\ e.line = 13

\* the shared operation catalogue
Catalogue ==
    {"take_along_axis", "from_numpy", "trapz", "qr", "norm", "logspace", "degree",
     "eigenpairs", "set_value", "dtype_double", "float_like", "dtype_integer",
     "dtype_complex", "get_random_state", "restore_random_state", "create_complex",
     "cumsum", "slogdet", "eigvalsh", "reciprocal_no_nan", "complex_conj"}

NativeTypes(m) ==
    IF m = "numpy" THEN {"ndarray", "RandomState"} ELSE {"Tensor", "Generator"}

(***************************************************************************)
(* C4: once the backend modules have been imported, every backend has, for *)
(* every operation of the shared catalogue, an entry of its own whose      *)
(* first parameter admits that backend's native array (or generator) type. *)
(***************************************************************************)
C4_FullCatalogue ==
    (\A m \in Modules : LoadEnded(m))
        => \A m \in Modules : \A op \in Catalogue :
              \E e \in table : /\ e.op = op /\ e.mod = m
                                /\ PatternTypes(e.sig[1]) \cap NativeTypes(m) # {}

(***************************************************************************)
(* C5: set_value(a, i, v) leaves the caller's array as it was and returns  *)
(* an array of the same length that holds v at index i and a's element at  *)
(* every other index.                                                      *)
(***************************************************************************)
C5_SetValueFrame ==
    (alast.op = "set_value")
        => /\ inp = alast.before
           /\ ares.kind = "dense1"
           /\ Len(ares.a) = Len(alast.before.a)
           /\ \A j \in 1..Len(ares.a) :
                 ares.a[j] = IF j - 1 = alast.index THEN alast.value
                                                   ELSE alast.before.a[j]

C5_Witness ==
    /\ alast.op = "set_value"
    /\ Len(alast.before.a) >= 2
    /\ alast.index \in 0..(Len(alast.before.a) - 1)
    /\ alast.before.a[alast.index + 1] # alast.value
    /\ ares.a[alast.index + 1] = alast.value
    /\ inp = alast.before

\* y is 0 where x is 0, and 1/x (the number whose product with x is 1) where
\* x is not
IsReciprocalOrZero(y, x) ==
    IF x = 0 THEN y = Rat(0, 1) ELSE (y.d > 0 /\ y.n * x = y.d)

\* the dense case of reciprocal_no_nan, on either backend
ReciprocalDenseCase ==
    (alast.op = "reciprocal_no_nan" /\ alast.before.kind = "dense1")
        => /\ ~alast.fault
           /\ inp = alast.before
           /\ ares.kind = "dense1"
           /\ Len(ares.a) = Len(alast.before.a)
           /\ \A j \in 1..Len(ares.a) : IsReciprocalOrZero(ares.a[j], alast.before.a[j])

\* the returned sparse matrix stores exactly the positions stored in the
\* input, once each, holding the reciprocal-or-zero of the input's value there
ReciprocalSparseValues ==
    (alast.op = "reciprocal_no_nan" /\ alast.before.kind = "sparse")
        => /\ ~alast.fault
           /\ ares.kind = "sparse"
           /\ StoredPositions(ares.sp) = StoredPositions(alast.before.sp)
           /\ \A i, j \in 1..Len(ares.sp) : ares.sp[i].pos = ares.sp[j].pos => i = j
           /\ \A j \in 1..Len(ares.sp) :
                 IsReciprocalOrZero(ares.sp[j].val, SumAt(alast.before.sp, ares.sp[j].pos))

C7_RestoredStreamFromSnapshot ==
    /\ gen2.exists
          => \A i \in 1..Len(draws2) :
                draws2[i] = Output((snap.atState + (i - 1)) % RngPeriod)
    /\ rlast.op = "restore" => heap[gen.var] = rlast.keyBefore

\* the rows at which column c of u holds a 1
ChosenRows(u, c) == {r \in 1..Len(u) : u[r][c] = 1}

(***************************************************************************)
(* C8: eigenpairs(L, k) returns the k largest eigenvalues of L and, as     *)
(* columns, eigenvectors matching them.  For L = diag(d): every returned   *)
(* column is a unit vector e_r with d[r] the eigenvalue returned beside    *)
(* it, and no eigenvalue left out exceeds a returned one.                  *)
(***************************************************************************)
C8_KLargestEigenpairs ==
    (alast.op = "eigenpairs")
        => LET L == alast.before.m
               k == alast.index
           IN  /\ Len(ares.a) = k
               /\ \A c \in 1..k :
                     /\ Cardinality(ChosenRows(ares.m, c)) = 1
                     /\ \A r \in 1..Len(L) : ares.m[r][c] \in {0, 1}
                     /\ \A r \in ChosenRows(ares.m, c) : L[r][r] = ares.a[c]
               /\ \A r \in 1..Len(L) :
                     (\A c \in 1..k : r \notin ChosenRows(ares.m, c))
                        => \A c \in 1..k : L[r][r] <= ares.a[c]

\* y[j] = x[1] + ... + x[j], stated step by step
IsRunningSum(y, x) ==
    /\ Len(y) = Len(x)
    /\ \A j \in 1..Len(x) : y[j] = (IF j = 1 THEN 0 ELSE y[j - 1]) + x[j]

(***************************************************************************)
(* C9: on every backend cumsum(a, axis) is the running sum of a along      *)
(* axis, and cumsum(a) without axis is the running sum of the flattened    *)
(* array.                                                                  *)
(***************************************************************************)
C9_CumsumRunningSum ==
    (alast.op = "cumsum")
        => LET x  == alast.before
               ax == NormAxis(x, alast.axis.ax)
           IN  /\ ~alast.axis.given
                     => /\ ares.kind = "dense1"
                        /\ IsRunningSum(ares.a,
                               IF x.kind = "dense1" THEN x.a ELSE Flatten(x.m))
               /\ (alast.axis.given /\ x.kind = "dense1" /\ ax = 0)
                     => (ares.kind = "dense1" /\ IsRunningSum(ares.a, x.a))
               /\ (alast.axis.given /\ x.kind = "dense2" /\ ax = 0)
                     => /\ ares.kind = "dense2"
                        /\ Len(ares.m) = Len(x.m)
                        /\ \A c \in 1..Len(x.m[1]) :
                              IsRunningSum(Column(ares.m, c), Column(x.m, c))
               /\ (alast.axis.given /\ x.kind = "dense2" /\ ax = 1)
                     => /\ ares.kind = "dense2"
                        /\ Len(ares.m) = Len(x.m)
                        /\ \A r \in 1..Len(x.m) : IsRunningSum(ares.m[r], x.m[r])

(***************************************************************************)
(* C10: a trainable adapter never holds an infinite nu; assigning an       *)
(* infinite value to nu on a trainable adapter raises ValueError and       *)
(* leaves raw_nu unchanged; on a non-trainable adapter every assignment is *)
(* accepted and the next forward hands that value to the base kernel.      *)
(***************************************************************************)
C10_NuInvariant ==
    /\ (kstate = "ok" /\ trainable_nu) => ~isinf(nu_getter(trainable_nu, raw_nu))
    /\ (klast.op = "set" /\ trainable_nu /\ klast.value.k \in {"pinf", "ninf"})
          => (kerr = "ValueError" /\ raw_nu = klast.rawBefore)
    /\ (klast.op = "set" /\ ~trainable_nu)
          => (kerr = "none" /\ raw_nu.k = as_tensor(klast.value).k
                           /\ raw_nu.v = klast.value.v)
    /\ (klast.op = "forward" /\ ~trainable_nu) => lastParams.nu = raw_nu
====
